---- MODULE Spec2Model ----
(***************************************************************************)
(* powertracker: the websocket client of cmd/client/client.go, driven the  *)
(* way rootCmd.Run drives it: New, Connect, ComputePowerStats.             *)
(*                                                                         *)
(* The server, the network, the clock and the file system are the          *)
(* environment: every read, write, dial and file operation takes each of   *)
(* its possible outcomes.                                                  *)
(***************************************************************************)
EXTENDS Integers, Sequences, FiniteSets, TLC

\* ------------------------------------------------------------------ bounds
MaxDays == 2          \* largest --days value explored
MaxBuckets == 25      \* longest bucket sequence a response carries
MaxTicks == 1         \* how many hours the wall clock may advance in a run
MaxIO == 7            \* longest log of one connection that still allows a call

\* --------------------------------------------------------------- constants
hoursInADay == 24
Nil == "nil"          \* Go nil: absent JSON field, nil error, nil *Conn is 0

\* the wall clock at process start, in hours since the epoch: 23:00 UTC
StartClock == 24 * 19999 + 23

\* ----------------------------------------------------------- configuration
Schemes == {"http", "https", "ws", "htp"}
EmptyURL == [kind |-> "empty", scheme |-> "", path |-> "", query |-> ""]
BadEscapeURL == [kind |-> "badescape", scheme |-> "http", path |-> "/", query |-> ""]
URLs ==
  {EmptyURL, BadEscapeURL}
  \cup { [kind |-> "url", scheme |-> s, path |-> "", query |-> ""] : s \in Schemes }
  \cup { [kind |-> "url", scheme |-> "http", path |-> "/lovelace", query |-> "a=1"] }
ApiKeys == {"test_token", "other_token"}
SensorIDs == {"", "sensor.power"}
DayCounts == (-1) .. MaxDays
Outputs == {"", "text", "table", "csv", "json"}

\* ------------------------------------------------------------------- state
VARIABLES
  viper,      \* the global settings: url, api_key, sensor_id
  Config,     \* Client.Config: Days, Output, Insecure
  Conn,       \* Client.Conn: 0 is nil, otherwise a connection id
  MessageID,  \* Client.MessageID
  pc,         \* position of the run
  dialURL,    \* Connect's local: the URL handed to the dialer
  conn,       \* Connect's local: the dialled connection, 0 before the dial
  err,        \* the error the current function returns, Nil for none
  net,        \* every dial, read and write made so far, in order
  i,          \* getResults' loop index
  results,    \* getResults' local / ComputePowerStats' local
  data,       \* the response read in the current iteration
  averages,   \* ComputePowerStats' local
  clock,      \* the wall clock, in hours
  stdout,     \* what the renderers printed
  file,       \* the file at Config.FilePath
  log,        \* the error and fatal lines logged
  werr        \* the csv.Writer's stored error, what writer.Error() would give

vars == <<viper, Config, Conn, MessageID, pc, dialURL, conn, err, net, i,
          results, data, averages, clock, stdout, file, log, werr>>

Err(prefix, detail) == [prefix |-> prefix, detail |-> detail]

\* fmt's %v of an interface value: nil prints as <nil>
FmtV(v) == IF v = Nil THEN "<nil>" ELSE v

NoURL == [scheme |-> "", path |-> "", query |-> ""]
NoErr == Err(Nil, Nil)
IsErr(e) == e.prefix # Nil

\* the zero APIResponse
NoData ==
  [id |-> 0, type |-> "", success |-> FALSE, result |-> <<>>,
   error |-> [code |-> "", message |-> ""]]

OldFile == [exists |-> TRUE, content |-> << <<"old">> >>]
NoFile == [exists |-> FALSE, content |-> <<>>]

Init ==
  /\ viper \in [url : URLs, api_key : ApiKeys, sensor_id : SensorIDs]
  /\ Config \in [Days : DayCounts, Output : Outputs, Insecure : BOOLEAN]
  /\ Conn = 0
  /\ MessageID = 0
  /\ pc = "Connect"
  /\ dialURL = NoURL
  /\ conn = 0
  /\ err = NoErr
  /\ net = <<>>
  /\ i = 0
  /\ results = <<>>
  /\ data = NoData
  /\ averages = <<>>
  /\ clock = StartClock
  /\ stdout = <<>>
  /\ file \in {NoFile, OldFile}
  /\ log = <<>>
  /\ werr = NoErr

\* ----------------------------------------------------------------- Connect
\* variant: every scheme but http becomes wss
RewriteScheme_ElseSecure(s) == IF s = "http" THEN "ws" ELSE "wss"

\* url.Parse, then the scheme rewrite and the path overwrite of Connect
RewriteScheme(s) == IF s = "http" THEN "ws" ELSE IF s = "https" THEN "wss" ELSE s

ResolveURL(u) ==
  [scheme |-> RewriteScheme(u.scheme), path |-> "/api/websocket", query |-> u.query]

\* variant: the empty URL is not looked for
URLMissing_Never(u) == FALSE

\* viper.GetString("url") == ""
URLMissing(u) == u.kind = "empty"

\* variant: the counter is left as it was, at the zero value New gave it
InitialMessageID_Zero == MessageID

\* c.MessageID = 1
InitialMessageID == 1

ConnectResolveURL ==
  /\ pc = "Connect"
  /\ MessageID' = InitialMessageID
  /\ IF URLMissing(viper.url)
       THEN /\ err' = Err("url is required", "")
            /\ pc' = "ConnectReturned"
            /\ UNCHANGED dialURL
       ELSE IF viper.url.kind = "badescape"
         THEN /\ err' = Err("parse", "invalid URL escape")
              /\ pc' = "ConnectReturned"
              /\ UNCHANGED dialURL
         ELSE /\ dialURL' = ResolveURL(viper.url)
              /\ pc' = "Dial"
              /\ UNCHANGED err
  /\ UNCHANGED <<viper, werr, Config, Conn, conn, net, i, results, data, averages,
                 clock, stdout, file, log>>

\* One entry of the I/O log
Event(op, c, ok, msg) == [op |-> op, conn |-> c, ok |-> ok, msg |-> msg]

NoMsg == [type |-> Nil]

\* websocket.Dialer.Dial accepts only the ws and wss schemes; any other
\* scheme is refused as malformed before a socket is opened
Dialable(u) == u.scheme \in {"ws", "wss"}

DialErrors == {"websocket: bad handshake", "network error"}

\* the dialer's TLS configuration: verification is skipped only when asked
DialRequest(u, insecure) ==
  [type |-> "dial", url |-> u, skipVerify |-> insecure]

\* the identity of a newly dialled connection: the first one that names
\* neither the stored connection nor one the log still mentions
NewConnID ==
  LET used == {net[k].conn : k \in 1 .. Len(net)} \cup {Conn}
  IN CHOOSE c \in 1 .. (Len(net) + 1) :
       c \notin used /\ \A d \in 1 .. (c - 1) : d \in used

\* variant: the error of Dial is not looked at
ConnectDial_IgnoreError ==
  /\ pc = "Dial"
  /\ \E ok \in BOOLEAN :
       /\ Dialable(dialURL) \/ ~ok
       /\ conn' = IF ok THEN NewConnID ELSE 0
       /\ net' = Append(net, Event("dial", conn', ok, DialRequest(dialURL, Config.Insecure)))
  /\ pc' = "ReadHello"
  /\ UNCHANGED <<viper, werr, Config, Conn, MessageID, dialURL, err, i, results, data,
                 averages, clock, stdout, file, log>>

\* variant: the dialled connection is stored as soon as the dial succeeds
ConnectDial_StoresConn ==
  /\ pc = "Dial"
  /\ \/ /\ \E e \in DialErrors \cup {"malformed ws or wss URL"} :
             /\ Dialable(dialURL) <=> e \in DialErrors
             /\ net' = Append(net, Event("dial", 0, FALSE, DialRequest(dialURL, Config.Insecure)))
             /\ err' = Err("dial", e)
        /\ pc' = "ConnectReturned"
        /\ UNCHANGED <<conn, Conn>>
     \/ /\ Dialable(dialURL)
        /\ conn' = NewConnID
        /\ Conn' = NewConnID
        /\ net' = Append(net, Event("dial", NewConnID, TRUE, DialRequest(dialURL, Config.Insecure)))
        /\ pc' = "ReadHello"
        /\ UNCHANGED err
  /\ UNCHANGED <<viper, werr, Config, MessageID, dialURL, i, results, data,
                 averages, clock, stdout, file, log>>

ConnectDial ==
  /\ pc = "Dial"
  /\ \/ /\ ~Dialable(dialURL)
        /\ net' = Append(net, Event("dial", 0, FALSE, DialRequest(dialURL, Config.Insecure)))
        /\ err' = Err("dial", "malformed ws or wss URL")
        /\ pc' = "ConnectReturned"
        /\ UNCHANGED conn
     \/ /\ Dialable(dialURL)
        /\ \E e \in DialErrors :
             /\ net' = Append(net, Event("dial", 0, FALSE, DialRequest(dialURL, Config.Insecure)))
             /\ err' = Err("dial", e)
        /\ pc' = "ConnectReturned"
        /\ UNCHANGED conn
     \/ /\ Dialable(dialURL)
        /\ conn' = NewConnID
        /\ net' = Append(net, Event("dial", NewConnID, TRUE, DialRequest(dialURL, Config.Insecure)))
        /\ pc' = "ReadHello"
        /\ UNCHANGED err
  /\ UNCHANGED <<viper, werr, Config, Conn, MessageID, dialURL, i, results, data,
                 averages, clock, stdout, file, log>>

\* what a server may send first
HelloMsgs == {[type |-> "auth_required"]}

\* variant: the hello is not read before the auth message is sent
ConnectReadHello_Skipped ==
  /\ pc = "ReadHello"
  /\ pc' = "WriteAuth"
  /\ UNCHANGED <<viper, werr, Config, Conn, MessageID, dialURL, conn, err, net, i,
                 results, data, averages, clock, stdout, file, log>>

ConnectReadHello ==
  /\ pc = "ReadHello"
  /\ \/ /\ net' = Append(net, Event("read", conn, FALSE, NoMsg))
        /\ err' = Err("initial message", "read error")
        /\ pc' = "ConnectReturned"
     \/ \E m \in HelloMsgs :
          /\ net' = Append(net, Event("read", conn, TRUE, m))
          /\ pc' = "WriteAuth"
          /\ UNCHANGED err
  /\ UNCHANGED <<viper, werr, Config, Conn, MessageID, dialURL, conn, i, results,
                 data, averages, clock, stdout, file, log>>

AuthMsg == [type |-> "auth", access_token |-> viper.api_key]

ConnectWriteAuth ==
  /\ pc = "WriteAuth"
  /\ \/ /\ net' = Append(net, Event("write", conn, FALSE, AuthMsg))
        /\ err' = Err("auth message", "write error")
        /\ pc' = "ConnectReturned"
     \/ /\ net' = Append(net, Event("write", conn, TRUE, AuthMsg))
        /\ pc' = "ReadAuthResp"
        /\ UNCHANGED err
  /\ UNCHANGED <<viper, werr, Config, Conn, MessageID, dialURL, conn, i, results,
                 data, averages, clock, stdout, file, log>>

\* what a server may answer to the auth message: any type, or none, with or
\* without a message text
AuthResps ==
  [type : {"auth_ok", "auth_invalid", Nil}, message : {Nil, "Invalid access token"}]

\* variant: only an explicit refusal is taken as a failure
AuthAccepted_NotInvalid(authResp) == authResp.type # "auth_invalid"

AuthAccepted(authResp) == authResp.type = "auth_ok"

ConnectReadAuthResp ==
  /\ pc = "ReadAuthResp"
  /\ \/ /\ net' = Append(net, Event("read", conn, FALSE, NoMsg))
        /\ err' = Err("auth response", "read error")
        /\ UNCHANGED Conn
     \/ \E authResp \in AuthResps :
          /\ net' = Append(net, Event("read", conn, TRUE, authResp))
          /\ IF AuthAccepted(authResp)
               THEN /\ Conn' = conn
                    /\ err' = NoErr
               ELSE /\ err' = Err("authentication failed", FmtV(authResp.message))
                    /\ UNCHANGED Conn
  /\ pc' = "ConnectReturned"
  /\ UNCHANGED <<viper, werr, Config, MessageID, dialURL, conn, i, results, data,
                 averages, clock, stdout, file, log>>

\* ----------------------------------------------------------- rootCmd.Run
\* variant: the Connect error is logged and the run goes on
RunAfterConnect_NotFatal ==
  /\ pc = "ConnectReturned"
  /\ log' = IF IsErr(err)
              THEN Append(log, [level |-> "error", msg |-> "connecting to websocket", err |-> err])
              ELSE log
  /\ pc' = "getResults"
  /\ UNCHANGED <<viper, werr, Config, Conn, MessageID, dialURL, conn, err, net, i,
                 results, data, averages, clock, stdout, file>>

\* Run: a Connect error is fatal, otherwise ComputePowerStats is called
RunAfterConnect ==
  /\ pc = "ConnectReturned"
  /\ IF IsErr(err)
       THEN /\ log' = Append(log, [level |-> "fatal", msg |-> "connecting to websocket", err |-> err])
            /\ pc' = "Exited"
       ELSE /\ pc' = "getResults"
            /\ UNCHANGED log
  /\ UNCHANGED <<viper, werr, Config, Conn, MessageID, dialURL, conn, err, net, i,
                 results, data, averages, clock, stdout, file>>

\* -------------------------------------------------------------- getResults
MaxClock == StartClock + MaxTicks

\* time.Truncate(24 * time.Hour): down to the last UTC midnight
Truncate(t) == t - (t % 24)

\* Format("2006-01-02T15:04:05.000Z") of an instant on the hour
FormatTime(t) == [day |-> t \div 24, hour |-> t % 24, zone |-> "Z"]

StatsRequest(id, now1, now2, row, sensorID) ==
  [id |-> id,
   type |-> "recorder/statistics_during_period",
   start_time |-> FormatTime(Truncate(now1 - (row + 1) * 24)),
   end_time |-> FormatTime(Truncate(now2)),
   statistic_ids |-> <<sensorID>>,
   period |-> "hour",
   types |-> <<"change">>,
   units |-> [energy |-> "kWh"]]

\* variant: the sensor id is not looked at
SensorMissing_Never(sensorID) == FALSE

\* sensorID == ""
SensorMissing(sensorID) == sensorID = ""

\* make([][]float64, Days): Days nil rows; a negative length panics
GetResultsBegin ==
  /\ pc = "getResults"
  /\ IF Config.Days < 0
       THEN /\ pc' = "Panic"
            /\ UNCHANGED <<results, err, i>>
       ELSE IF SensorMissing(viper.sensor_id)
         THEN /\ err' = Err("sensor_id is required", "")
              /\ results' = <<>>
              /\ pc' = "getResultsReturned"
              /\ UNCHANGED i
         ELSE /\ results' = [k \in 1 .. Config.Days |-> <<>>]
              /\ i' = 0
              /\ pc' = "Loop"
              /\ UNCHANGED err
  /\ UNCHANGED <<viper, werr, Config, Conn, MessageID, dialURL, conn, net, data,
                 averages, clock, stdout, file, log>>

\* variant: a request whose write failed is written again
GetResultsSend_Retry ==
  /\ pc = "Loop"
  /\ IF i >= Len(results)
       THEN /\ err' = NoErr
            /\ pc' = "getResultsReturned"
            /\ UNCHANGED <<MessageID, clock, net, results>>
       ELSE /\ MessageID' = MessageID + 1
            /\ \E now1 \in clock .. MaxClock : \E now2 \in now1 .. MaxClock :
                 /\ clock' = now2
                 /\ \E ok \in BOOLEAN :
                      /\ net' = Append(net, Event("write", Conn, ok,
                                  StatsRequest(MessageID', now1, now2, i, viper.sensor_id)))
                      /\ pc' = IF ok THEN "Read" ELSE "Loop"
                      /\ UNCHANGED <<err, results>>
  /\ UNCHANGED <<viper, werr, Config, Conn, dialURL, conn, i, data, averages,
                 stdout, file, log>>

\* one pass of the loop head: the id is incremented, the clock is read twice
\* (it may advance in between) and the request is written; c.write on a nil
\* Conn is a nil dereference
GetResultsSend ==
  /\ pc = "Loop"
  /\ IF i >= Len(results)
       THEN /\ err' = NoErr
            /\ pc' = "getResultsReturned"
            /\ UNCHANGED <<MessageID, clock, net, results>>
       ELSE /\ MessageID' = MessageID + 1
            /\ \E now1 \in clock .. MaxClock : \E now2 \in now1 .. MaxClock :
                 /\ clock' = now2
                 /\ IF Conn = 0
                      THEN /\ pc' = "Panic"
                           /\ UNCHANGED <<net, err, results>>
                      ELSE \E ok \in BOOLEAN :
                        /\ net' = Append(net, Event("write", Conn, ok,
                                    StatsRequest(MessageID', now1, now2, i, viper.sensor_id)))
                        /\ IF ok
                             THEN /\ pc' = "Read"
                                  /\ UNCHANGED <<err, results>>
                             ELSE /\ err' = Err("writing to websocket", "write error")
                                  /\ results' = <<>>
                                  /\ pc' = "getResultsReturned"
  /\ UNCHANGED <<viper, werr, Config, Conn, dialURL, conn, i, data, averages,
                 stdout, file, log>>

\* a float64 that the model keeps exact: num / den
Rat(n, d) == [num |-> n, den |-> d]

\* the hourly buckets a server may return: two value patterns
Change(pat, j) == IF pat = 1 THEN Rat(1, 1) ELSE Rat(j % 3, 1)
Bucket(pat, j) == [change |-> Change(pat, j), start |-> j - 1, end |-> j]
Buckets(len, pat) == [j \in 1 .. len |-> Bucket(pat, j)]
BucketLens == {0, 1, hoursInADay - 1, hoursInADay, MaxBuckets}
BucketSeqs == { Buckets(len, 2) : len \in BucketLens } \cup {Buckets(hoursInADay, 1)}

\* the result map of a response, keyed by statistic id
ResultMaps(sensorID) ==
  { [k \in {sensorID} |-> b] : b \in BucketSeqs }
  \cup { [k \in {"sensor.other"} |-> Buckets(hoursInADay, 1)], [k \in {} |-> <<>>] }

ServerErrors ==
  { [code |-> "", message |-> ""],
    [code |-> "unknown_error", message |-> "Unknown error"] }

\* the messages a server may send while statistics are collected; one of
\* them carries an id that is not the request's
Responses(reqID, sensorID) ==
  { [id |-> reqID, type |-> "result", success |-> TRUE, result |-> r,
     error |-> [code |-> "", message |-> ""]] : r \in ResultMaps(sensorID) }
  \cup
  { [id |-> 0, type |-> "result", success |-> TRUE,
     result |-> [k \in {sensorID} |-> Buckets(hoursInADay, 1)],
     error |-> [code |-> "", message |-> ""]] }
  \cup
  { [id |-> reqID, type |-> "result", success |-> FALSE,
     result |-> [k \in {} |-> <<>>], error |-> e] : e \in ServerErrors }

\* data.Result[sensorID]: a missing key reads as the nil slice
Lookup(result, k) == IF k \in DOMAIN result THEN result[k] ELSE <<>>

\* variant: every returned bucket is copied
ChangeSlice_All(buckets) == [j \in 1 .. Len(buckets) |-> buckets[j].change]

\* variant: the buckets are copied from the last one down
ChangeSlice_Reversed(buckets) ==
  [j \in 1 .. hoursInADay |-> buckets[hoursInADay + 1 - j].change]

\* changeSlice: the change of each of the first hoursInADay buckets
ChangeSlice(buckets) == [j \in 1 .. hoursInADay |-> buckets[j].change]

\* indexing buckets[0 .. hoursInADay-1] is in range
InRange(buckets) == Len(buckets) >= hoursInADay

\* variant: the success flag is not looked at
Succeeded_Always(m) == TRUE

\* data.Success
Succeeded(m) == m.success

\* variant: only an empty result map counts as no results
NoBuckets_MapEmpty(m, sensorID) == DOMAIN m.result = {}

\* len(data.Result[sensorID]) == 0
NoBuckets(m, sensorID) == Len(Lookup(m.result, sensorID)) = 0

\* variant: the response is not waited for while rows remain
GetResultsRecv_Deferred ==
  /\ pc = "Read"
  /\ results' = [results EXCEPT ![i + 1] = [j \in 1 .. hoursInADay |-> Rat(0, 1)]]
  /\ i' = i + 1
  /\ pc' = "Loop"
  /\ UNCHANGED <<viper, werr, Config, Conn, MessageID, dialURL, conn, err, net, data,
                 averages, clock, stdout, file, log>>

GetResultsRecv ==
  /\ pc = "Read"
  /\ \/ /\ net' = Append(net, Event("read", Conn, FALSE, NoMsg))
        /\ err' = Err("reading from websocket", "read error")
        /\ results' = <<>>
        /\ pc' = "getResultsReturned"
        /\ UNCHANGED <<data, i>>
     \/ \E m \in Responses(MessageID, viper.sensor_id) :
          /\ net' = Append(net, Event("read", Conn, TRUE, m))
          /\ data' = m
          /\ IF ~Succeeded(m)
               THEN /\ err' = Err("api response error", m.error)
                    /\ results' = <<>>
                    /\ pc' = "getResultsReturned"
                    /\ UNCHANGED i
               ELSE IF NoBuckets(m, viper.sensor_id)
                 THEN /\ err' = Err("no results returned - is your sensorID correct?",
                                    viper.sensor_id)
                      /\ results' = <<>>
                      /\ pc' = "getResultsReturned"
                      /\ UNCHANGED i
                 ELSE IF ~InRange(Lookup(m.result, viper.sensor_id))
                   THEN /\ pc' = "Panic"
                        /\ UNCHANGED <<err, results, i>>
                   ELSE /\ results' = [results EXCEPT ![i + 1] =
                                         ChangeSlice(Lookup(m.result, viper.sensor_id))]
                        /\ i' = i + 1
                        /\ pc' = "Loop"
                        /\ UNCHANGED err
  /\ UNCHANGED <<viper, werr, Config, Conn, MessageID, dialURL, conn, averages,
                 clock, stdout, file, log>>

\* ------------------------------------------------------- ComputePowerStats
RECURSIVE GCD(_, _)
GCD(a, b) == IF b = 0 THEN a ELSE GCD(b, a % b)

Abs(n) == IF n < 0 THEN -n ELSE n

\* a quotient in lowest terms; 0/0 is NaN and is kept as num = 0, den = 0
Norm(n, d) ==
  IF d = 0 THEN Rat(IF n > 0 THEN 1 ELSE IF n < 0 THEN -1 ELSE 0, 0)
  ELSE LET g == GCD(Abs(n), Abs(d))
           sgn == IF d < 0 THEN -1 ELSE 1
       IN Rat(sgn * (n \div g), sgn * (d \div g))

AddRat(a, b) == Norm(a.num * b.den + b.num * a.den, a.den * b.den)

\* float64 division by float64(n)
DivRat(a, n) == Norm(a.num, a.den * n)

\* variant: the sum starts at the second row
RECURSIVE ColumnSum_SkipFirst(_, _)
ColumnSum_SkipFirst(rows, h) ==
  IF Len(rows) <= 1 THEN Rat(0, 1)
  ELSE AddRat(ColumnSum_SkipFirst(SubSeq(rows, 1, Len(rows) - 1), h), rows[Len(rows)][h])

\* sum := 0.0; for j := range results { sum += results[j][h] }
RECURSIVE ColumnSum(_, _)
ColumnSum(rows, h) ==
  IF rows = <<>> THEN Rat(0, 1)
  ELSE AddRat(ColumnSum(SubSeq(rows, 1, Len(rows) - 1), h), rows[Len(rows)][h])

\* the divisor of the averages
Divisor(rows, days) == days

Averages(rows, days) ==
  [h \in 1 .. hoursInADay |-> DivRat(ColumnSum(rows, h), Divisor(rows, days))]

\* ComputePowerStats up to the switch: a getResults error is logged and ends
\* the call, otherwise the averages are computed
\* variant: the error of getResults is not looked at
GetResultsFailed_Never(e) == FALSE

\* err != nil
GetResultsFailed(e) == e # NoErr

ComputeAverages ==
  /\ pc = "getResultsReturned"
  /\ IF GetResultsFailed(err)
       THEN /\ log' = Append(log, [level |-> "error", msg |-> "getting results", err |-> err])
            /\ pc' = "Done"
            /\ UNCHANGED averages
       ELSE /\ averages' = Averages(results, Config.Days)
            /\ pc' = "Render"
            /\ UNCHANGED log
  /\ UNCHANGED <<viper, werr, Config, Conn, MessageID, dialURL, conn, err, net, i,
                 results, data, clock, stdout, file>>

\* --------------------------------------------------------------- renderers
\* Sprintf("%d", n)
FmtD(n) == ToString(n)

Pad6(str) ==
  LET z == <<"000000", "00000", "0000", "000", "00", "0", "">>
  IN z[Len(str) + 1] \o str

\* Sprintf("%f", x): six decimals, rounded to nearest
FmtF(x) ==
  IF x.den = 0 THEN (IF x.num = 0 THEN "NaN" ELSE IF x.num > 0 THEN "+Inf" ELSE "-Inf")
  ELSE LET micros == (2 * Abs(x.num) * 1000000 + x.den) \div (2 * x.den)
           body == ToString(micros \div 1000000) \o "." \o Pad6(ToString(micros % 1000000))
       IN IF x.num < 0 /\ micros # 0 THEN "-" \o body ELSE body

FmtRow(row) == [j \in 1 .. Len(row) |-> FmtF(row[j])]

Headers == [h \in 1 .. hoursInADay |-> FmtD(h - 1)]

\* variant: the default case prints the plain text
Renderer_DefaultText(output) ==
  IF output = "table" THEN "table"
  ELSE IF output = "csv" THEN "csv"
  ELSE "text"

\* which renderer the switch on Config.Output selects
Renderer(output) ==
  IF output = "text" THEN "text"
  ELSE IF output = "csv" THEN "csv"
  ELSE "table"

WritePlainText ==
  /\ pc = "Render"
  /\ Renderer(Config.Output) = "text"
  /\ stdout' = stdout \o [h \in 1 .. Len(averages) |-> FmtF(averages[h]) \o ","]
  /\ pc' = "Done"
  /\ UNCHANGED <<viper, werr, Config, Conn, MessageID, dialURL, conn, err, net, i,
                 results, data, averages, clock, file, log>>

Table(hdr, rows, avgs) ==
  [header |-> hdr,
   rows |-> [k \in 1 .. Len(rows) |-> FmtRow(rows[k])],
   footer |-> FmtRow(avgs)]

PrintTable ==
  /\ pc = "Render"
  /\ Renderer(Config.Output) = "table"
  /\ stdout' = Append(stdout, Table(Headers, results, averages))
  /\ pc' = "Done"
  /\ UNCHANGED <<viper, werr, Config, Conn, MessageID, dialURL, conn, err, net, i,
                 results, data, averages, clock, file, log>>

\* variant: the averages are written right after the header
CSVRecords_AveragesFirst(hdr, rows, avgs) ==
  <<hdr>> \o <<FmtRow(avgs)>> \o [k \in 1 .. Len(rows) |-> FmtRow(rows[k])]

\* the records writeCSVFile hands to the csv.Writer, in order
CSVRecords(hdr, rows, avgs) ==
  <<hdr>> \o [k \in 1 .. Len(rows) |-> FmtRow(rows[k])] \o <<FmtRow(avgs)>>

\* csv.NewWriter buffers through a bufio.Writer of this many bytes
BufSize == 4096

RECURSIVE FieldBytes(_)
FieldBytes(rec) == IF rec = <<>> THEN 0 ELSE Len(Head(rec)) + 1 + FieldBytes(Tail(rec))

RECURSIVE CSVBytes(_)
CSVBytes(recs) == IF recs = <<>> THEN 0 ELSE FieldBytes(Head(recs)) + CSVBytes(Tail(recs))

\* case "csv": writeCSVFile and the report of its error.  os.Create
\* truncates; the records stay in the writer's buffer until it is full or
\* Flush is called.  A write to the file that fails leaves the records
\* written before it in the file and the error in the writer; Write returns
\* it only when the buffer filled up, and after Flush it is not looked at.
WriteCSVFile ==
  /\ pc = "Render"
  /\ Renderer(Config.Output) = "csv"
  /\ LET recs == CSVRecords(Headers, results, averages) IN
       \/ /\ err' = Err("creating file", "open error")
          /\ werr' = NoErr
          /\ UNCHANGED file
       \/ /\ CSVBytes(recs) > BufSize
          /\ err' = Err("writing row", "write error")
          /\ werr' = Err("write", "write error")
          /\ file' = [exists |-> TRUE, content |-> <<>>]
       \/ /\ err' = NoErr
          /\ werr' = NoErr
          /\ file' = [exists |-> TRUE, content |-> recs]
       \/ \E n \in 0 .. (Len(recs) - 1) :
            /\ err' = NoErr
            /\ werr' = Err("write", "write error")
            /\ file' = [exists |-> TRUE, content |-> SubSeq(recs, 1, n)]
  /\ log' = IF IsErr(err')
              THEN Append(log, [level |-> "error", msg |-> "writing CSV file", err |-> err'])
              ELSE log
  /\ pc' = "Done"
  /\ UNCHANGED <<viper, Config, Conn, MessageID, dialURL, conn, net, i,
                 results, data, averages, clock, stdout>>

Next ==
  \/ ConnectResolveURL
  \/ ConnectDial
  \/ ConnectReadHello
  \/ ConnectWriteAuth
  \/ ConnectReadAuthResp
  \/ RunAfterConnect
  \/ GetResultsBegin
  \/ GetResultsSend
  \/ GetResultsRecv
  \/ ComputeAverages
  \/ WritePlainText
  \/ PrintTable
  \/ WriteCSVFile

Spec == Init /\ [][Next]_vars

\* a run that is configured to reach the collection: a url that can be
\* dialled, a sensor id, one day or more, one of the named output modes
InitLive ==
  /\ Init
  /\ viper.url = [kind |-> "url", scheme |-> "http", path |-> "", query |-> ""]
  /\ viper.api_key = "test_token"
  /\ viper.sensor_id = "sensor.power"
  /\ Config.Days >= 1
  /\ Config.Output \in {"text", "table", "csv"}
  /\ ~Config.Insecure
  /\ file = NoFile

\* the run with progress: the process keeps running and every blocked read
\* or write returns, with a message or with an error
SpecLive == InitLive /\ [][Next]_vars /\ WF_vars(Next)

\* ------------------------------------------------- one Client, many calls
\* A caller that keeps one Client and calls Connect and ComputePowerStats
\* in any order, setting the url before a Connect as the tests do, late
\* enough in the hour that the clock does not tick again.  When a
\* call starts, the log keeps only the I/O of the stored connection, and
\* what earlier calls printed and logged is put aside.  ComputePowerStats
\* is not called again once the log of the stored connection has MaxIO
\* entries.
InitCalls ==
  /\ viper \in [url : {EmptyURL}, api_key : {"test_token"}, sensor_id : {"sensor.power"}]
  /\ Config \in [Days : {1}, Output : {"text", "table", "csv"}, Insecure : {FALSE}]
  /\ Conn = 0
  /\ MessageID = 0
  /\ pc = "Idle"
  /\ dialURL = NoURL
  /\ conn = 0
  /\ err = NoErr
  /\ net = <<>>
  /\ i = 0
  /\ results = <<>>
  /\ data = NoData
  /\ averages = <<>>
  /\ clock = MaxClock
  /\ stdout = <<>>
  /\ file = NoFile
  /\ log = <<>>
  /\ werr = NoErr

\* the urls the caller sets: none, one that does not parse, a server's
\* http url, and one with a scheme that is no web scheme
CallURLs ==
  {EmptyURL, BadEscapeURL}
  \cup { [kind |-> "url", scheme |-> s, path |-> "", query |-> ""] : s \in {"http", "htp"} }

\* the caller is between two calls
Returned == pc \in {"Idle", "ConnectReturned", "Done"}

\* the I/O made on the stored connection
LiveLog ==
  LET live(e) == Conn # 0 /\ e.conn = Conn IN SelectSeq(net, live)

\* viper.Set("url", u); client.Connect()
CallConnect ==
  /\ Returned
  /\ \E u \in CallURLs : viper' = [viper EXCEPT !.url = u]
  /\ pc' = "Connect"
  /\ dialURL' = NoURL
  /\ conn' = 0
  /\ err' = NoErr
  /\ werr' = NoErr
  /\ i' = 0
  /\ results' = <<>>
  /\ data' = NoData
  /\ averages' = <<>>
  /\ net' = LiveLog
  /\ stdout' = <<>>
  /\ log' = <<>>
  /\ UNCHANGED <<Config, Conn, MessageID, clock, file>>

\* client.ComputePowerStats()
CallComputePowerStats ==
  /\ Returned
  /\ Len(LiveLog) < MaxIO
  /\ pc' = "getResults"
  /\ err' = NoErr
  /\ werr' = NoErr
  /\ i' = 0
  /\ results' = <<>>
  /\ data' = NoData
  /\ averages' = <<>>
  /\ dialURL' = NoURL
  /\ conn' = 0
  /\ net' = LiveLog
  /\ stdout' = <<>>
  /\ log' = <<>>
  /\ UNCHANGED <<viper, Config, Conn, MessageID, clock, file>>

NextCalls ==
  \/ CallConnect
  \/ CallComputePowerStats
  \/ ConnectResolveURL
  \/ ConnectDial
  \/ ConnectReadHello
  \/ ConnectWriteAuth
  \/ ConnectReadAuthResp
  \/ GetResultsBegin
  \/ GetResultsSend
  \/ GetResultsRecv
  \/ ComputeAverages
  \/ WritePlainText
  \/ PrintTable
  \/ WriteCSVFile

SpecCalls == InitCalls /\ [][NextCalls]_vars

\* ================================================================== claims
\* the reads and writes made on connection c, in order
OnConn(c) ==
  LET onC(e) == e.conn = c /\ e.op # "dial" IN SelectSeq(net, onC)

IsAuth(e) == e.op = "write" /\ e.msg.type = "auth"
IsStatsRequest(e) == e.op = "write" /\ e.msg.type = "recorder/statistics_during_period"
IsResponse(e) == e.op = "read" /\ e.ok /\ e.msg.type = "result"

\* C1: on every connection whose dial succeeded the first operation is the
\* read of the hello, the second is the one auth message, {type: "auth",
\* access_token: api_key}, written only after the hello was read, the third
\* is the read of the auth result; no auth message is written at any other
\* position, and Connect returns nil, storing the connection, when the
\* result has type "auth_ok".
C1_HandshakeOrder ==
  \A k \in 1 .. Len(net) :
    (net[k].op = "dial" /\ net[k].ok) =>
      LET ev == OnConn(net[k].conn) IN
        /\ Len(ev) >= 1 => ev[1].op = "read"
        /\ Len(ev) >= 2 =>
             /\ ev[1].ok
             /\ ev[2].op = "write"
             /\ ev[2].msg = [type |-> "auth", access_token |-> viper.api_key]
        /\ Len(ev) >= 3 => ev[2].ok /\ ev[3].op = "read"
        /\ \A j \in 1 .. Len(ev) : IsAuth(ev[j]) => j = 2
        /\ (pc = "ConnectReturned" /\ Len(ev) = 3 /\ ev[3].ok /\ ev[3].msg.type = "auth_ok")
             => (err = NoErr /\ Conn = net[k].conn)

C1_Witness ==
  /\ pc = "ConnectReturned"
  /\ err = NoErr
  /\ Conn # 0
  /\ Len(OnConn(Conn)) = 3

\* C2: with an empty configured URL, Connect returns "url is required" and
\* has made no dial, no read and no write, and no session is stored.
C2_EmptyURLNoIO ==
  (viper.url.kind = "empty" /\ pc # "Connect") =>
    /\ err = Err("url is required", "")
    /\ net = <<>>
    /\ Conn = 0
    /\ pc \in {"ConnectReturned", "Exited"}

C2_Witness ==
  /\ viper.url.kind = "empty"
  /\ pc = "ConnectReturned"
  /\ err.prefix = "url is required"

\* the message read as the auth result, when Connect has read one
AuthResultRead ==
  /\ pc = "ConnectReturned"
  /\ conn # 0
  /\ Len(OnConn(conn)) = 3
  /\ OnConn(conn)[3].ok

\* C3: when the message read after the auth message has a type other than
\* "auth_ok", or no type, Connect returns "authentication failed: " followed
\* by the message field of that message (<nil> when it has none) and the
\* connection is not stored in Client.Conn.
C3_AuthRejected ==
  (AuthResultRead /\ OnConn(conn)[3].msg.type # "auth_ok") =>
    LET m == OnConn(conn)[3].msg IN
      /\ err.prefix = "authentication failed"
      /\ m.message # Nil => err.detail = m.message
      /\ m.message = Nil => err.detail = "<nil>"
      /\ Conn # conn

C3_Witness ==
  /\ AuthResultRead
  /\ OnConn(conn)[3].msg.type = Nil
  /\ OnConn(conn)[3].msg.message = "Invalid access token"
  /\ err.prefix = "authentication failed"

\* a response read so far carried more than hoursInADay buckets
LongResponseRead ==
  \E k \in 1 .. Len(net) :
    /\ IsResponse(net[k])
    /\ Len(Lookup(net[k].msg.result, viper.sensor_id)) > hoursInADay

\* C4: when getResults returns without error for a day count D >= 1, the
\* matrix has D rows of hoursInADay columns each, also when responses
\* carried more buckets than that.
C4_MatrixShape ==
  (pc \in {"getResultsReturned", "Render"} /\ err = NoErr /\ Config.Days >= 1) =>
    /\ Len(results) = Config.Days
    /\ \A k \in 1 .. Len(results) : Len(results[k]) = hoursInADay

C4_Witness ==
  /\ pc = "Render"
  /\ Config.Days = MaxDays
  /\ LongResponseRead

\* the sum of column h of the matrix; every change of the model is a whole
\* number, so the numerators add up
RECURSIVE C5_Sum(_, _)
C5_Sum(k, h) == IF k = 0 THEN 0 ELSE results[k][h].num + C5_Sum(k - 1, h)

\* C5: once computed, the averages have hoursInADay entries and entry h is
\* the sum of column h divided by Config.Days: avg * Days = sum, and the
\* entry is a number unless Days is 0.
C5_AveragesByDays ==
  (pc \in {"Render", "Done"} /\ averages # <<>>) =>
    /\ Len(averages) = hoursInADay
    /\ \A h \in 1 .. hoursInADay :
         /\ averages[h].num * Config.Days = C5_Sum(Len(results), h) * averages[h].den
         /\ Config.Days # 0 => averages[h].den # 0

C5_Witness ==
  /\ pc = "Render"
  /\ Config.Days = 2
  /\ averages[2] = Rat(3, 2)
\* the response read last is a successful one whose bucket sequence for the
\* configured sensor has n entries
LastBuckets == Lookup(data.result, viper.sensor_id)
LastResponseOK == data.type = "result" /\ data.success

\* C6: a successful response with 1 to hoursInADay - 1 buckets for the
\* sensor makes getResults return an error: it does not produce a row and
\* does not fail in another way.
C6_ShortSequenceIsError ==
  (LastResponseOK /\ Len(LastBuckets) \in 1 .. (hoursInADay - 1)) =>
    (pc \in {"getResultsReturned", "Done"} /\ IsErr(err))

\* C7: a response with success = false, at any row, ends the collection: it
\* is the last I/O of the run, getResults returns the server's error and no
\* matrix, and nothing is rendered.
C7_FailureAborts ==
  \A k \in 1 .. Len(net) :
    (IsResponse(net[k]) /\ ~net[k].msg.success) =>
      /\ k = Len(net)
      /\ pc \in {"getResultsReturned", "Done"}
      /\ err = Err("api response error", net[k].msg.error)
      /\ results = <<>>
      /\ stdout = <<>>

C7_Witness ==
  /\ pc = "getResultsReturned"
  /\ i = 1
  /\ data.type = "result"
  /\ ~data.success
  /\ data.error.code = "unknown_error"

\* C8: a successful response with an empty bucket sequence for the
\* configured sensor, or with no entry for it, makes getResults return the
\* "no results returned" error that names the sensor id.
C8_NoBucketsNamesSensor ==
  (LastResponseOK /\ Len(LastBuckets) = 0) =>
    /\ pc \in {"getResultsReturned", "Done"}
    /\ err.prefix = "no results returned - is your sensorID correct?"
    /\ err.detail = viper.sensor_id

C8_Witness ==
  /\ pc = "getResultsReturned"
  /\ LastResponseOK
  /\ DOMAIN data.result = {"sensor.other"}
  /\ err.detail = "sensor.power"

\* C9: with an empty sensor_id, once getResults has been entered the I/O
\* log still ends with the handshake, MessageID is still the 1 Connect set,
\* and the call has failed: with "sensor_id is required", or in make when
\* Days is negative.
C9_NoSensorNoNetwork ==
  (viper.sensor_id = "" /\ pc \notin {"Connect", "Dial", "ReadHello", "WriteAuth",
                                      "ReadAuthResp", "ConnectReturned", "Exited",
                                      "getResults"}) =>
    /\ Len(net) = 4
    /\ \A k \in 1 .. Len(net) : ~IsStatsRequest(net[k]) /\ ~IsResponse(net[k])
    /\ MessageID = 1
    /\ pc \in {"getResultsReturned", "Done", "Panic"}
    /\ pc # "Panic" => err = Err("sensor_id is required", "")
    /\ pc = "Panic" => Config.Days < 0

C9_Witness ==
  /\ viper.sensor_id = ""
  /\ pc = "getResultsReturned"
  /\ err.prefix = "sensor_id is required"

CollectionErrors ==
  {"writing to websocket", "reading from websocket", "api response error",
   "no results returned - is your sensorID correct?"}

\* C10: when the collection has failed at a row (write error, read error,
\* success = false or no buckets), nothing is printed and the file is the
\* one that was there, or missing, at the start.
C10_NoPartialOutput ==
  (err.prefix \in CollectionErrors) =>
    /\ pc \in {"getResultsReturned", "Done"}
    /\ stdout = <<>>
    /\ file \in {NoFile, OldFile}

C10_Witness ==
  /\ pc = "Done"
  /\ err.prefix = "reading from websocket"
  /\ i = 1
  /\ Config.Output = "csv"

\* the file is the one that was there, or missing, at the start
FileUntouched == file \in {NoFile, OldFile}

RequestsBefore(k) == Cardinality({j \in 1 .. (k - 1) : IsStatsRequest(net[j])})

\* C12: when Connect returns, MessageID is 1; the request written for row r
\* (the r-th after Connect, from 0) carries id r + 2, and the id just
\* written is the value MessageID now has: increment, then send.
C12_IdsFromTwo ==
  /\ pc = "ConnectReturned" => MessageID = 1
  /\ \A k \in 1 .. Len(net) :
       IsStatsRequest(net[k]) => net[k].msg.id = RequestsBefore(k) + 2
  /\ (net # <<>> /\ IsStatsRequest(net[Len(net)])) => net[Len(net)].msg.id = MessageID

C12_Witness ==
  /\ pc = "Read"
  /\ i = 1
  /\ IsStatsRequest(net[Len(net)])
  /\ net[Len(net)].msg.id = 3

\* C13: the dial URL's scheme is ws for http, wss for https and the given
\* scheme for any other; a scheme that is none of http, https, ws, wss is
\* not refused before the dial: the dialer is called with it, and Connect
\* returns the dialer's error wrapped as "dial: ...", nothing else having
\* been read or written.
C13_SchemeRewrite ==
  (viper.url.kind = "url" /\ pc # "Connect") =>
    /\ viper.url.scheme = "http" => dialURL.scheme = "ws"
    /\ viper.url.scheme = "https" => dialURL.scheme = "wss"
    /\ viper.url.scheme \notin {"http", "https"} => dialURL.scheme = viper.url.scheme
    /\ (viper.url.scheme \notin {"http", "https", "ws", "wss"} /\ pc # "Dial") =>
         /\ Len(net) = 1
         /\ net[1].op = "dial"
         /\ net[1].msg.url.scheme = viper.url.scheme
         /\ ~net[1].ok
         /\ err.prefix = "dial"
         /\ pc \in {"ConnectReturned", "Exited"}

C13_Witness ==
  /\ viper.url.scheme = "htp"
  /\ pc = "ConnectReturned"
  /\ err = Err("dial", "malformed ws or wss URL")

\* C14: the dial URL has the path /api/websocket and carries neither the
\* path nor the query of the configured URL.
C14_FixedPathNoQuery ==
  (viper.url.kind = "url" /\ pc # "Connect") =>
    /\ dialURL.path = "/api/websocket"
    /\ dialURL.query = ""

\* C15: a failed dial is the last I/O of Connect: it returns "dial: ..."
\* with the dialer's error, no message is read or written on any
\* connection afterwards and Client.Conn is not set.
C15_DialFailure ==
  \A k \in 1 .. Len(net) :
    (net[k].op = "dial" /\ ~net[k].ok) =>
      /\ k = Len(net)
      /\ err.prefix = "dial"
      /\ err.detail \in DialErrors \cup {"malformed ws or wss URL"}
      /\ Conn = 0
      /\ pc \in {"ConnectReturned", "Exited"}

C15_Witness ==
  /\ pc = "ConnectReturned"
  /\ err = Err("dial", "websocket: bad handshake")
  /\ Len(net) = 1

\* C16: when the CSV file was written without a failure, it holds
\* Days + 2 records of hoursInADay fields: the header "0" .. "23", then
\* the rows of the matrix in matrix order, then the averages.
C16_CSVRecordOrder ==
  (pc = "Done" /\ Config.Output = "csv" /\ averages # <<>> /\ err = NoErr /\ werr = NoErr) =>
    LET c == file.content
        D == Len(results)
    IN /\ file.exists
       /\ Len(c) = D + 2
       /\ \A k \in 1 .. Len(c) : Len(c[k]) = hoursInADay
       /\ \A h \in 1 .. hoursInADay : c[1][h] = ToString(h - 1)
       /\ \A k \in 1 .. D : \A h \in 1 .. hoursInADay : c[k + 1][h] = FmtF(results[k][h])
       /\ \A h \in 1 .. hoursInADay : c[D + 2][h] = FmtF(averages[h])

C16_Witness ==
  /\ pc = "Done"
  /\ Config.Output = "csv"
  /\ Config.Days = 2
  /\ err = NoErr
  /\ werr = NoErr
  /\ Len(file.content) = 4
  /\ file.content[2] # file.content[3]
  /\ file.content[4][2] = "1.500000"

\* the last line logged is the report of a CSV error
CSVErrorReported ==
  /\ log # <<>>
  /\ log[Len(log)].msg = "writing CSV file"
  /\ log[Len(log)].err = err

\* C17: when the creation of the file or a write to it failed, at a record
\* or at the final flush, writeCSVFile has returned an error and
\* ComputePowerStats has logged it.
C17_CSVFailureReported ==
  (pc = "Done" /\ Config.Output = "csv" /\ averages # <<>>
     /\ (werr # NoErr \/ err.prefix = "creating file")) =>
    (IsErr(err) /\ CSVErrorReported)

\* the response of event e was taken as a row
Accepted(e) ==
  /\ IsResponse(e)
  /\ e.msg.success
  /\ Len(Lookup(e.msg.result, viper.sensor_id)) >= hoursInADay

\* the statistics requests written and not yet answered by a read
InFlight ==
  Cardinality({k \in 1 .. Len(net) : IsStatsRequest(net[k]) /\ net[k].ok})
  - Cardinality({k \in 1 .. Len(net) : net[k].op = "read" /\ RequestsBefore(k) > 0})

\* C19: at most one statistics request is unanswered at any time, and a
\* request that is not the first is written right after the read of an
\* accepted response, itself right after the previous request.
C19_TurnTaking ==
  /\ InFlight \in {0, 1}
  /\ \A k \in 1 .. Len(net) :
       (IsStatsRequest(net[k]) /\ RequestsBefore(k) > 0) =>
         /\ Accepted(net[k - 1])
         /\ IsStatsRequest(net[k - 2])
         /\ net[k - 2].ok

C19_Witness ==
  /\ pc = "Read"
  /\ i = 1
  /\ InFlight = 1
  /\ RequestsBefore(Len(net)) = 1

ConnectPhase ==
  {"Connect", "Dial", "ReadHello", "WriteAuth", "ReadAuthResp", "ConnectReturned"}

\* an auth result of type "auth_ok" was read on connection c before position k
AuthOKBefore(c, k) ==
  \E j \in 1 .. (k - 1) :
    /\ net[j].op = "read"
    /\ net[j].ok
    /\ net[j].conn = c
    /\ net[j].msg.type = "auth_ok"

\* C20: every statistics request is written on a connection on which an
\* "auth_ok" result was read before; ComputePowerStats is entered only with
\* such a connection stored, and a run whose Connect failed has exited
\* without any statistics request.
C20_StatsAfterAuth ==
  /\ \A k \in 1 .. Len(net) :
       IsStatsRequest(net[k]) => AuthOKBefore(net[k].conn, k)
  /\ pc \notin (ConnectPhase \cup {"Exited"}) =>
       (Conn # 0 /\ AuthOKBefore(Conn, Len(net) + 1))
  /\ pc = "Exited" =>
       /\ IsErr(err)
       /\ \A k \in 1 .. Len(net) : ~IsStatsRequest(net[k])
  /\ (pc = "ConnectReturned" /\ IsErr(err)) => ~AuthOKBefore(conn, Len(net) + 1)

C20_Witness ==
  /\ pc = "Read"
  /\ i = 0
  /\ IsStatsRequest(net[Len(net)])
  /\ AuthOKBefore(net[Len(net)].conn, Len(net))

\* C18: on every connection, the ids of the statistics requests written to
\* it increase strictly in the order they were written.
C18_IdsIncreasePerConn ==
  \A j \in 1 .. Len(net) : \A k \in (j + 1) .. Len(net) :
    (IsStatsRequest(net[j]) /\ IsStatsRequest(net[k]) /\ net[j].conn = net[k].conn)
      => net[j].msg.id < net[k].msg.id

\* a step that the code takes as a failure: an I/O error, an auth result
\* other than "auth_ok", a response with success = false or without buckets
RejectedAuth(e) == e.op = "read" /\ e.ok /\ e.msg.type \in {"auth_invalid", Nil}
RefusedResponse(e) ==
  /\ IsResponse(e)
  /\ ~e.msg.success \/ Len(Lookup(e.msg.result, viper.sensor_id)) = 0
FailedStep(e) == ~e.ok \/ RejectedAuth(e) \/ RefusedResponse(e)

StatsRequests == {k \in 1 .. Len(net) : IsStatsRequest(net[k])}

C22_WindowIsRowDays ==
  \A k \in 1 .. Len(net) :
    IsStatsRequest(net[k]) =>
      LET m == net[k].msg IN
        /\ m.start_time.hour = 0
        /\ m.end_time.hour = 0
        /\ m.end_time.day - m.start_time.day = RequestsBefore(k) + 1

\* the responses read so far, in the order they were read
ResponsesRead == SelectSeq(net, IsResponse)

\* C23: while the matrix is held, each filled row r is the sequence of the
\* change values of buckets 1 .. hoursInADay, in that order, of the sensor's
\* entry in the r-th response read; later buckets leave no trace and the
\* rows not yet filled are empty.
C23_RowsAreFirstBuckets ==
  (Config.Days >= 1 /\ Len(results) = Config.Days) =>
    /\ i <= Len(ResponsesRead)
    /\ \A r \in 1 .. Len(results) :
         IF r <= i
           THEN LET b == Lookup(ResponsesRead[r].msg.result, viper.sensor_id) IN
                  /\ Len(results[r]) = hoursInADay
                  /\ \A j \in 1 .. hoursInADay : results[r][j] = b[j].change
           ELSE results[r] = <<>>

C23_Witness ==
  /\ pc = "getResultsReturned"
  /\ err = NoErr
  /\ i = 2
  /\ results[1] # results[2]
  /\ Len(Lookup(ResponsesRead[2].msg.result, viper.sensor_id)) > hoursInADay

\* C24: a response that filled a row carries the id of the statistics
\* request written just before it.
C24_ResponseIdMatches ==
  \A k \in 2 .. Len(net) :
    Accepted(net[k]) =>
      /\ IsStatsRequest(net[k - 1])
      /\ net[k].msg.id = net[k - 1].msg.id

\* C25: a collection for D >= 1 days never writes more than D requests nor
\* reads more than D responses, and once getResults is entered
\* ComputePowerStats finishes, having rendered or reported an error.
C25_TerminatesWithinDays ==
  /\ [](Config.Days >= 1 =>
          /\ Cardinality(StatsRequests) <= Config.Days
          /\ Len(ResponsesRead) <= Config.Days)
  /\ ((pc = "getResults" /\ Config.Days >= 1) ~> (pc = "Done"))

\* C26: a step of a Connect call changes Client.Conn only when it is the
\* step that returns nil; every call that returns an error has left
\* Client.Conn as it was when the call started.
C26_FailedConnectKeepsConn ==
  [][(pc \in ConnectPhase \ {"ConnectReturned"}
        /\ ~(pc' = "ConnectReturned" /\ err' = NoErr))
      => Conn' = Conn]_vars

C26_Witness ==
  /\ pc = "ConnectReturned"
  /\ IsErr(err)
  /\ err.prefix = "authentication failed"
  /\ Conn # 0
  /\ conn # 0
  /\ conn # Conn
====
